---- MODULE Spec2Model ----
(***************************************************************************)
(* Model of the policy dashboard (src/app.py): one Streamlit script with   *)
(* two report generators, real_phillips_curve and real_exim_pulse, chosen  *)
(* by the sidebar radio.  A render is one top-to-bottom run of the chosen  *)
(* function; the remote indicator source and the local CSV file are the    *)
(* environment and are drawn nondeterministically.                         *)
(*                                                                         *)
(* Numbers are integers: the sums and the difference of the trade summary  *)
(* are modelled exactly, floating-point rounding is not.                   *)
(***************************************************************************)
EXTENDS Integers, Sequences, FiniteSets, TLC

VARIABLES
    page,        \* sidebar selection (line 19), "" before a selection
    pc,          \* position of the script in the current render
    queried,     \* names of the indicators queried so far, in order
    raised,      \* names of the indicators whose query raised
    df_list,     \* real_phillips_curve: frames fetched so far
    final_df,    \* real_phillips_curve: joined table
    errors,      \* messages shown with st.error in this render
    chart,       \* figure shown with st.plotly_chart
    table,       \* rows shown with st.dataframe in the raw-data expander
    csv,         \* what pd.read_csv found at 'rbi_data.csv'
    df,          \* real_exim_pulse: loaded trade table
    imports,     \* real_exim_pulse: rows of Type 'Import'
    exports,     \* real_exim_pulse: rows of Type 'Export'
    clean_df,    \* real_phillips_curve: rows kept for the fit
    metrics,     \* the three st.metric values
    top          \* the two top-3 lists

vars == <<page, pc, queried, raised, df_list, final_df, clean_df, errors,
          chart, table, csv, df, imports, exports, metrics, top>>

(***************************************************************************)
(* Bounds                                                                  *)
(***************************************************************************)
NumYears == 3          \* years in the queried range (the program uses 24)
MaxRows == 3           \* rows of the trade file
MaxTopRows == 5        \* rows of the trade file in the top-3 specification

(***************************************************************************)
(* Program constants                                                       *)
(***************************************************************************)
YearStart == 2000
TopN == 3
TrendPoints == 100

PhillipsPage == "Real-Time Phillips Curve"
EximPage == "EXIM Trade Pulse"
Pages == {PhillipsPage, EximPage}

indicators ==
    << [code |-> "FP.CPI.TOTL.ZG", name |-> "Inflation"],
       [code |-> "SL.UEM.TOTL.ZS", name |-> "Unemployment"] >>

\* the texts of the three st.error calls (pictographs left out)
FetchErrorMsg(name) == <<"Could not retrieve data for ", name>>
EmptyErrorMsg == <<"API returned no data. Please check internet connection.">>
FileErrorMsg == <<"Data file not found. Please ensure 'rbi_data.csv' is in the folder.">>

\* the label of the country node (its flag pictograph left out)
INDIA == "INDIA"
ImportLinkColor == "rgba(239, 68, 68, 0.4)"
ExportLinkColor == "rgba(34, 197, 94, 0.4)"
ImportNodeColor == "#dc2626"
IndiaNodeColor == "#1e40af"
ExportNodeColor == "#16a34a"

(***************************************************************************)
(* Values of the environment                                               *)
(***************************************************************************)
\* An absent cell (pandas NaN) is the empty sequence, a present one <<v>>.
NaN == <<>>
Cell(v) == <<v>>
IndicatorValues == {4, 7}
Cells == {NaN} \cup {Cell(v) : v \in IndicatorValues}

Years == YearStart .. (YearStart + NumYears - 1)

NoFig == [kind |-> "none"]
NoTable == [shown |-> FALSE]
NoMetrics == [shown |-> FALSE]
NoTop == [shown |-> FALSE]
Unread == [state |-> "unread", rows |-> <<>>]
Missing == [state |-> "missing", rows |-> <<>>]
Found(rows) == [state |-> "found", rows |-> rows]

(***************************************************************************)
(* Text helpers: year labels are character sequences, "YR2000"             *)
(***************************************************************************)
Digit == <<"0", "1", "2", "3", "4", "5", "6", "7", "8", "9">>
DigitVal(c) == (CHOOSE d \in 1..10 : Digit[d] = c) - 1

RECURSIVE ToStr(_)
ToStr(n) ==
    IF n < 10 THEN <<Digit[n + 1]>>
    ELSE ToStr(n \div 10) \o <<Digit[(n % 10) + 1]>>

\* the label the remote source gives the column of year y
YearLabel(y) == <<"Y", "R">> \o ToStr(y)

\* str.replace(old, '', regex=False): every occurrence of old is removed
RECURSIVE StrReplace(_, _)
StrReplace(s, old) ==
    IF Len(s) < Len(old) THEN s
    ELSE IF SubSeq(s, 1, Len(old)) = old
         THEN StrReplace(SubSeq(s, Len(old) + 1, Len(s)), old)
         ELSE <<Head(s)>> \o StrReplace(Tail(s), old)

\* astype(int) of a string of decimal digits
RECURSIVE AsInt(_)
AsInt(s) ==
    IF Len(s) = 1 THEN DigitVal(s[1])
    ELSE 10 * AsInt(SubSeq(s, 1, Len(s) - 1)) + DigitVal(s[Len(s)])

(***************************************************************************)
(* real_phillips_curve: the remote source                                  *)
(***************************************************************************)
\* What wb.data.DataFrame(ind, 'IND', time=range(2000, 2024)).T can hand back:
\* a one-column frame indexed by the year labels the source returned, each
\* cell a value or absent.  A frame is a function from labels to cells.  The
\* source may leave years out, down to a frame with no row at all; whatever
\* makes the call or the renaming raise is the failure case of FetchIndicator.
Labels == {YearLabel(y) : y \in Years}
Frames == UNION {[S -> Cells] : S \in SUBSET Labels}

\* d.columns = [name]
Named(name, d) == [column |-> name, data |-> d]

(***************************************************************************)
(* real_phillips_curve: joining and cleaning                               *)
(***************************************************************************)
\* labels of a set in ascending order of the year they carry
RECURSIVE SortLabels(_)
SortLabels(S) ==
    IF S = {} THEN <<>>
    ELSE LET l == CHOOSE x \in S :
                    \A y \in S : AsInt(StrReplace(x, <<"Y", "R">>))
                                   <= AsInt(StrReplace(y, <<"Y", "R">>))
         IN <<l>> \o SortLabels(S \ {l})

\* the cell of column name at index label l after an outer join
ColumnAt(dfs, name, l) ==
    LET hits == {i \in DOMAIN dfs : dfs[i].column = name /\ l \in DOMAIN dfs[i].data}
    IN IF hits = {} THEN NaN ELSE dfs[CHOOSE i \in hits : TRUE].data[l]

\* the index of pd.concat(df_list, axis=1): the union of the frames' indexes
\* variant: an inner join, the labels every frame has
ConcatIndexInner(dfs) ==
    {l \in Labels : \A i \in DOMAIN dfs : l \in DOMAIN dfs[i].data}

ConcatIndex(dfs) == UNION {DOMAIN dfs[i].data : i \in DOMAIN dfs}

\* pd.concat(df_list, axis=1)
Concat(dfs) ==
    LET idx == SortLabels(ConcatIndex(dfs))
    IN [k \in DOMAIN idx |->
          [index |-> idx[k],
           Inflation |-> ColumnAt(dfs, "Inflation", idx[k]),
           Unemployment |-> ColumnAt(dfs, "Unemployment", idx[k])]]

\* index.astype(str).str.replace('YR', '').astype(int); reset_index; rename
WithYear(frame) ==
    [k \in DOMAIN frame |->
        [Year |-> AsInt(StrReplace(frame[k].index, <<"Y", "R">>)),
         Inflation |-> frame[k].Inflation,
         Unemployment |-> frame[k].Unemployment]]

IsClean(row) == row.Unemployment # NaN /\ row.Inflation # NaN

\* final_df.dropna(subset=['Unemployment', 'Inflation'])
DropNa(frame) == SelectSeq(frame, IsClean)

RECURSIVE MinOf(_)
MinOf(s) ==
    IF Len(s) = 1 THEN s[1]
    ELSE LET m == MinOf(Tail(s)) IN IF Head(s) <= m THEN Head(s) ELSE m

RECURSIVE MaxOf(_)
MaxOf(s) ==
    IF Len(s) = 1 THEN s[1]
    ELSE LET m == MaxOf(Tail(s)) IN IF Head(s) >= m THEN Head(s) ELSE m

\* variant: a trend line from a single row on
HasTrendLoose(clean) == Len(clean) > 0

\* if len(clean_df) > 1
HasTrend(clean) == Len(clean) > 1

\* the 'Trend Line' trace: 100 points between the least and the greatest
\* clean Unemployment value (the fitted coefficients are not modelled)
TrendLine(clean) ==
    LET xs == [k \in DOMAIN clean |-> clean[k].Unemployment[1]]
    IN [name |-> "Trend Line", x_min |-> MinOf(xs), x_max |-> MaxOf(xs),
        count |-> TrendPoints]

\* px.scatter(final_df, x="Unemployment", y="Inflation", ...): one point per
\* row of the table handed over; the plot layer leaves out absent cells
Scatter(frame) ==
    [kind |-> "scatter",
     points |-> [k \in DOMAIN frame |->
                   [x |-> frame[k].Unemployment, y |-> frame[k].Inflation,
                    Year |-> frame[k].Year]],
     traces |-> <<>>]

\* if len(clean_df) > 1: ... fig.add_scatter(...)
AddTrend(fig, clean) ==
    IF HasTrend(clean)
    THEN [fig EXCEPT !.traces = Append(@, TrendLine(clean))]
    ELSE fig

\* final_df.sort_values('Year', ascending=False)
RECURSIVE SortYearDesc(_)
SortYearDesc(frame) ==
    IF frame = <<>> THEN <<>>
    ELSE LET k == CHOOSE i \in DOMAIN frame :
                    /\ \A j \in DOMAIN frame : frame[j].Year <= frame[i].Year
                    /\ \A j \in 1..(i - 1) : frame[j].Year # frame[i].Year
         IN <<frame[k]>> \o
            SortYearDesc(SubSeq(frame, 1, k - 1) \o SubSeq(frame, k + 1, Len(frame)))

(***************************************************************************)
(* real_exim_pulse: the trade table                                        *)
(***************************************************************************)
Categories == {"Oil", "Gold", "Tea"}
TradeValues == {30, 50, 100}
Types == {"Import", "Export"}
\* rows whose Type is neither of the two the program looks for
OtherRows == [Category : {"Tea"}, Value : {50}, Type : {"import", "Other"}]
TradeRows == [Category : Categories, Value : TradeValues, Type : Types] \cup OtherRows

TopCategories == {"Oil"}
TopRows == [Category : TopCategories, Value : TradeValues, Type : Types]

\* the files of at most n rows over a set of rows
Files(rows, n) == UNION {[1..k -> rows] : k \in 0..n}

\* pd.read_csv: the rows in file order under a RangeIndex 0, 1, 2, ...
ReadCsv(rows) ==
    [k \in DOMAIN rows |->
        [index |-> k - 1, Category |-> rows[k].Category,
         Value |-> rows[k].Value, Type |-> rows[k].Type]]

\* variant: everything that is not an export counts as an import
IsImportLoose(row) == row.Type # "Export"
IsImport(row) == row.Type = "Import"
IsExport(row) == row.Type = "Export"

ImportsLoose(frame) == SelectSeq(frame, IsImportLoose)

\* df[df['Type'] == 'Import'], df[df['Type'] == 'Export']
Imports(frame) == SelectSeq(frame, IsImport)
Exports(frame) == SelectSeq(frame, IsExport)

\* [f"{row['Category']}" for _, row in part.iterrows()]
LabelsOf(part) == [k \in DOMAIN part |-> part[k].Category]

\* variant: the country node put first
all_labels_country_first(import_labels, export_labels) ==
    <<INDIA>> \o import_labels \o export_labels

\* all_labels = import_labels + [country] + export_labels
all_labels(import_labels, export_labels) ==
    import_labels \o <<INDIA>> \o export_labels

\* variant: a 1-based country index
india_index_off(import_labels) == Len(import_labels) + 1

\* 0-based, as in the program
india_index(import_labels) == Len(import_labels)

\* the two loops that fill sources, targets, values and link_colors
ImportLinks(imp) ==
    [k \in DOMAIN imp |->
        [source |-> k - 1,
         target |-> india_index(LabelsOf(imp)),
         value |-> imp[k].Value,
         color |-> ImportLinkColor]]

ExportLinks(imp, exp) ==
    [k \in DOMAIN exp |->
        [source |-> india_index(LabelsOf(imp)),
         target |-> india_index(LabelsOf(imp)) + 1 + (k - 1),
         value |-> exp[k].Value,
         color |-> ExportLinkColor]]

node_colors(import_labels, export_labels) ==
    [k \in DOMAIN import_labels |-> ImportNodeColor]
      \o <<IndiaNodeColor>> \o
    [k \in DOMAIN export_labels |-> ExportNodeColor]

\* go.Figure(data=[go.Sankey(node=..., link=...)])
Sankey(imp, exp) ==
    LET links == ImportLinks(imp) \o ExportLinks(imp, exp)
    IN [kind |-> "sankey",
        label |-> all_labels(LabelsOf(imp), LabelsOf(exp)),
        color |-> node_colors(LabelsOf(imp), LabelsOf(exp)),
        source |-> [k \in DOMAIN links |-> links[k].source],
        target |-> [k \in DOMAIN links |-> links[k].target],
        value |-> [k \in DOMAIN links |-> links[k].value],
        link_color |-> [k \in DOMAIN links |-> links[k].color]]

(***************************************************************************)
(* real_exim_pulse: the summary                                            *)
(***************************************************************************)
\* part['Value'].sum()
RECURSIVE SumValue(_)
SumValue(part) ==
    IF part = <<>> THEN 0 ELSE Head(part).Value + SumValue(Tail(part))

\* variant: exports minus imports
trade_deficit_swapped(total_imports, total_exports) == total_exports - total_imports

\* trade_deficit = total_imports - total_exports
trade_deficit(total_imports, total_exports) == total_imports - total_exports

Summary(imp, exp) ==
    [shown |-> TRUE,
     total_imports |-> SumValue(imp),
     total_exports |-> SumValue(exp),
     trade_deficit |-> trade_deficit(SumValue(imp), SumValue(exp))]

\* variant: part.head(n), the first n rows unsorted
nlargest_unsorted(part, n) ==
    SubSeq(part, 1, IF n < Len(part) THEN n ELSE Len(part))

\* part.nlargest(n, 'Value'), keep='first': n times the first row of the
\* greatest value among those not yet taken
RECURSIVE nlargest(_, _)
nlargest(part, n) ==
    IF n = 0 \/ part = <<>> THEN <<>>
    ELSE LET k == CHOOSE i \in DOMAIN part :
                    /\ \A j \in DOMAIN part : part[j].Value <= part[i].Value
                    /\ \A j \in 1..(i - 1) : part[j].Value # part[i].Value
         IN <<part[k]>> \o
            nlargest(SubSeq(part, 1, k - 1) \o SubSeq(part, k + 1, Len(part)), n - 1)

\* the two lists under "Top Import Categories" and "Top Export Categories"
TopLists(imp, exp) ==
    [shown |-> TRUE,
     imports |-> nlargest(imp, TopN),
     exports |-> nlargest(exp, TopN)]

TradeFiles == Files(TradeRows, MaxRows)
TopFiles == Files(TopRows, MaxTopRows)

\* rows a fallback would invent when the file is missing
SampleRows == <<[Category |-> "Oil", Value |-> 100, Type |-> "Import"]>>

(***************************************************************************)
(* The script                                                              *)
(***************************************************************************)
Init ==
    /\ page = ""
    /\ pc = "idle"
    /\ queried = <<>>
    /\ raised = <<>>
    /\ df_list = <<>>
    /\ final_df = <<>>
    /\ clean_df = <<>>
    /\ errors = <<>>
    /\ chart = NoFig
    /\ table = NoTable
    /\ csv = Unread
    /\ df = <<>>
    /\ imports = <<>>
    /\ exports = <<>>
    /\ metrics = NoMetrics
    /\ top = NoTop

\* the sidebar radio and the dispatch at the end of the script
Navigate(p) ==
    /\ pc = "idle"
    /\ page' = p
    /\ pc' = IF p = PhillipsPage THEN "fetch" ELSE "load"
    /\ UNCHANGED <<queried, raised, df_list, final_df, clean_df, errors, chart,
                   table, csv, df, imports, exports, metrics, top>>

\* where the loop over the indicators stands after one more query
AfterQuery == IF Len(queried) + 1 = Len(indicators) THEN "fetched" ELSE "fetch"

\* variant: the error is shown and the loop goes on
FetchFailedContinue(name) ==
    /\ queried' = Append(queried, name)
    /\ raised' = Append(raised, name)
    /\ errors' = Append(errors, FetchErrorMsg(name))
    /\ pc' = AfterQuery
    /\ UNCHANGED <<page, df_list, final_df, clean_df, chart, table, csv, df,
                   imports, exports, metrics, top>>

\* except: st.error(f"Could not retrieve data for {name}"); return
FetchFailed(name) ==
    /\ queried' = Append(queried, name)
    /\ raised' = Append(raised, name)
    /\ errors' = Append(errors, FetchErrorMsg(name))
    /\ pc' = "done"
    /\ UNCHANGED <<page, df_list, final_df, clean_df, chart, table, csv, df,
                   imports, exports, metrics, top>>

\* d = wb.data.DataFrame(...).T; d.columns = [name]; df_list.append(d)
FetchOk(name, d) ==
    /\ queried' = Append(queried, name)
    /\ df_list' = Append(df_list, Named(name, d))
    /\ pc' = AfterQuery
    /\ UNCHANGED <<page, raised, final_df, clean_df, errors, chart, table, csv,
                   df, imports, exports, metrics, top>>

\* one pass of "for ind, name in indicators.items()"
FetchIndicator ==
    /\ pc = "fetch"
    /\ LET name == indicators[Len(queried) + 1].name
       IN \/ FetchFailed(name)
          \/ \E d \in Frames : FetchOk(name, d)

\* the rest of real_phillips_curve, from "if not df_list" on
PhillipsRender ==
    /\ pc = "fetched"
    /\ IF df_list = <<>>
       THEN /\ errors' = Append(errors, EmptyErrorMsg)
            /\ UNCHANGED <<final_df, clean_df, chart, table>>
       ELSE /\ final_df' = WithYear(Concat(df_list))
            /\ clean_df' = DropNa(final_df')
            /\ chart' = AddTrend(Scatter(final_df'), clean_df')
            /\ table' = [shown |-> TRUE, rows |-> SortYearDesc(final_df')]
            /\ UNCHANGED errors
    /\ pc' = "done"
    /\ UNCHANGED <<page, queried, raised, df_list, csv, df, imports, exports,
                   metrics, top>>

\* variant: a missing file replaced by sample rows
LoadMissingFallback ==
    /\ csv' = Missing
    /\ df' = ReadCsv(SampleRows)
    /\ pc' = "build"
    /\ UNCHANGED <<page, queried, raised, df_list, final_df, clean_df, errors,
                   chart, table, imports, exports, metrics, top>>

\* except FileNotFoundError: st.error(...); return
LoadMissing ==
    /\ csv' = Missing
    /\ errors' = Append(errors, FileErrorMsg)
    /\ pc' = "done"
    /\ UNCHANGED <<page, queried, raised, df_list, final_df, clean_df, chart,
                   table, df, imports, exports, metrics, top>>

\* df = pd.read_csv('rbi_data.csv')
LoadFound(rows) ==
    /\ csv' = Found(rows)
    /\ df' = ReadCsv(rows)
    /\ pc' = "build"
    /\ UNCHANGED <<page, queried, raised, df_list, final_df, clean_df, errors,
                   chart, table, imports, exports, metrics, top>>

LoadData(files) ==
    /\ pc = "load"
    /\ \/ LoadMissing
       \/ \E rows \in files : LoadFound(rows)

LoadTrade == LoadData(TradeFiles)
LoadTop == LoadData(TopFiles)

\* the rest of real_exim_pulse: partition, flow graph, summary, top-3 lists
EximRender ==
    /\ pc = "build"
    /\ imports' = Imports(df)
    /\ exports' = Exports(df)
    /\ chart' = Sankey(imports', exports')
    /\ metrics' = Summary(imports', exports')
    /\ top' = TopLists(imports', exports')
    /\ pc' = "done"
    /\ UNCHANGED <<page, queried, raised, df_list, final_df, clean_df, errors,
                   table, csv, df>>

\* any interaction reruns the script from the top; nothing is kept
Rerun ==
    /\ pc = "done"
    /\ page' = ""
    /\ pc' = "idle"
    /\ queried' = <<>>
    /\ raised' = <<>>
    /\ df_list' = <<>>
    /\ final_df' = <<>>
    /\ clean_df' = <<>>
    /\ errors' = <<>>
    /\ chart' = NoFig
    /\ table' = NoTable
    /\ csv' = Unread
    /\ df' = <<>>
    /\ imports' = <<>>
    /\ exports' = <<>>
    /\ metrics' = NoMetrics
    /\ top' = NoTop

\* the whole dashboard
Next ==
    \/ \E p \in Pages : Navigate(p)
    \/ FetchIndicator
    \/ PhillipsRender
    \/ LoadTrade
    \/ EximRender
    \/ Rerun

Spec == Init /\ [][Next]_vars

\* the indicator report alone
NextPhillips ==
    \/ Navigate(PhillipsPage)
    \/ FetchIndicator
    \/ PhillipsRender
    \/ Rerun

SpecPhillips == Init /\ [][NextPhillips]_vars

\* the trade report alone
NextExim ==
    \/ Navigate(EximPage)
    \/ LoadTrade
    \/ EximRender
    \/ Rerun

SpecExim == Init /\ [][NextExim]_vars

\* the trade report alone, over longer files of fewer distinct rows
NextTop ==
    \/ Navigate(EximPage)
    \/ LoadTop
    \/ EximRender
    \/ Rerun

SpecTop == Init /\ [][NextTop]_vars

(***************************************************************************)
(* Properties of the trade report                                          *)
(***************************************************************************)
\* positions in the file of the rows of a given Type, read off the file itself
RowsOfType(type) == {p \in DOMAIN csv.rows : csv.rows[p].Type = type}

\* the position in the file of the k-th row of a given Type
KthOfType(type, k) ==
    CHOOSE p \in RowsOfType(type) :
        Cardinality({q \in RowsOfType(type) : q < p}) = k - 1

RECURSIVE SumOver(_, _)
SumOver(S, f) ==
    IF S = {} THEN 0
    ELSE LET x == CHOOSE y \in S : TRUE IN f[x] + SumOver(S \ {x}, f)

\* indexes (0-based) of the nodes of the country colour
CountryNodes == {k - 1 : k \in {j \in DOMAIN chart.color : chart.color[j] = IndiaNodeColor}}

ImportEdges == {k \in DOMAIN chart.link_color : chart.link_color[k] = ImportLinkColor}
ExportEdges == {k \in DOMAIN chart.link_color : chart.link_color[k] = ExportLinkColor}

\* C1: the flow graph of every loaded trade table has (#Import rows) + 1 +
\* (#Export rows) nodes, every edge's source and target is a valid node index,
\* there is a single country node, every Import edge targets it and every
\* Export edge leaves from it.
C1_FlowGraphWellFormed ==
    chart.kind = "sankey" =>
        LET n == Len(chart.label)
        IN /\ n = Cardinality(RowsOfType("Import")) + 1
                    + Cardinality(RowsOfType("Export"))
           /\ Len(chart.color) = n
           /\ Len(chart.target) = Len(chart.source)
           /\ Len(chart.link_color) = Len(chart.source)
           /\ \A k \in DOMAIN chart.source :
                /\ 0 <= chart.source[k] /\ chart.source[k] < n
                /\ 0 <= chart.target[k] /\ chart.target[k] < n
           /\ Cardinality(CountryNodes) = 1
           /\ \A k \in ImportEdges : chart.target[k] \in CountryNodes
           /\ \A k \in ExportEdges : chart.source[k] \in CountryNodes
           /\ ImportEdges \cup ExportEdges = DOMAIN chart.source

C1_Witness ==
    /\ chart.kind = "sankey"
    /\ Cardinality(RowsOfType("Import")) = 2
    /\ Cardinality(RowsOfType("Export")) = 1
    /\ ImportEdges # {} /\ ExportEdges # {}

ScenarioRows ==
    << [Category |-> "Oil", Value |-> 100, Type |-> "Import"],
       [Category |-> "Gold", Value |-> 50, Type |-> "Import"],
       [Category |-> "Tea", Value |-> 30, Type |-> "Export"] >>

\* C2: the node list is the Import rows' categories in file order, then the
\* one country node, then the Export rows' categories in file order; each
\* Import/Export row has its own node and its own edge (duplicates are not
\* merged); the i-th Import edge leaves from the node of the i-th Import row
\* and the j-th Export edge arrives at the node of the j-th Export row.  The
\* scenario [Oil 100 Import, Gold 50 Import, Tea 30 Export] gives the nodes
\* [Oil, Gold, country, Tea] and the edges (0->2,100), (1->2,50), (2->3,30).
C2_NodeOrderMatchesEdges ==
    chart.kind = "sankey" =>
        LET nI == Cardinality(RowsOfType("Import"))
            nE == Cardinality(RowsOfType("Export"))
        IN /\ Len(chart.label) = nI + 1 + nE
           /\ Len(chart.source) = nI + nE
           /\ Len(chart.target) = nI + nE
           /\ Len(chart.value) = nI + nE
           /\ chart.label[nI + 1] = INDIA
           /\ \A i \in 1..nI :
                /\ chart.label[i] = csv.rows[KthOfType("Import", i)].Category
                /\ chart.source[i] = i - 1
                /\ chart.target[i] = nI
                /\ chart.value[i] = csv.rows[KthOfType("Import", i)].Value
           /\ \A j \in 1..nE :
                /\ chart.label[nI + 1 + j] = csv.rows[KthOfType("Export", j)].Category
                /\ chart.source[nI + j] = nI
                /\ chart.target[nI + j] = nI + j
                /\ chart.value[nI + j] = csv.rows[KthOfType("Export", j)].Value
           /\ csv.rows = ScenarioRows =>
                /\ chart.label = <<"Oil", "Gold", INDIA, "Tea">>
                /\ chart.source = <<0, 1, 2>>
                /\ chart.target = <<2, 2, 3>>
                /\ chart.value = <<100, 50, 30>>

C2_Witness ==
    /\ chart.kind = "sankey"
    /\ csv.rows = ScenarioRows
    /\ chart.label = <<"Oil", "Gold", INDIA, "Tea">>

\* C3: the total import value of the summary is the sum of the values of the
\* Import edges, the total export value the sum of the values of the Export
\* edges, and the deficit is total imports minus total exports, negative
\* whenever exports exceed imports.
C3_TotalsMatchEdges ==
    metrics.shown =>
        /\ chart.kind = "sankey"
        /\ metrics.total_imports = SumOver(ImportEdges, chart.value)
        /\ metrics.total_exports = SumOver(ExportEdges, chart.value)
        /\ metrics.trade_deficit = metrics.total_imports - metrics.total_exports
        /\ (metrics.total_exports > metrics.total_imports => metrics.trade_deficit < 0)

C3_Witness ==
    /\ metrics.shown
    /\ metrics.total_imports > 0
    /\ metrics.total_exports > metrics.total_imports
    /\ metrics.trade_deficit < 0

\* C7: when the trade file is missing the report stops with the file-missing
\* message and shows no flow figure, no metrics and no top-3 lists, and loads
\* no substitute rows; the flow figure is shown only when the file was loaded.
C7_MissingFileAborts ==
    /\ csv.state = "missing" =>
         /\ pc = "done"
         /\ errors = <<FileErrorMsg>>
         /\ chart = NoFig
         /\ metrics = NoMetrics
         /\ top = NoTop
         /\ df = <<>> /\ imports = <<>> /\ exports = <<>>
    /\ chart.kind = "sankey" => csv.state = "found" /\ errors = <<>>

C7_Witness ==
    /\ page = EximPage
    /\ csv.state = "missing"
    /\ pc = "done"
    /\ errors = <<FileErrorMsg>>

\* file positions (1-based) of the rows held by a partition
PositionsIn(part) == {part[k].index + 1 : k \in DOMAIN part}

\* C10: a row whose Type is not exactly "Import" or "Export" is dropped
\* without an error: it is in neither partition, has no node and no edge, and
\* counts in neither total and neither top-3 list; the partitions are disjoint
\* and every "Import" or "Export" row is in exactly one of them.
C10_OtherTypesDropped ==
    (pc = "done" /\ csv.state = "found") =>
        /\ errors = <<>>
        /\ PositionsIn(imports) = RowsOfType("Import")
        /\ PositionsIn(exports) = RowsOfType("Export")
        /\ Len(imports) = Cardinality(RowsOfType("Import"))
        /\ Len(exports) = Cardinality(RowsOfType("Export"))
        /\ PositionsIn(imports) \cap PositionsIn(exports) = {}
        /\ Len(chart.label) = Len(imports) + 1 + Len(exports)
        /\ Len(chart.source) = Len(imports) + Len(exports)
        /\ metrics.total_imports =
             SumOver(RowsOfType("Import"), [p \in DOMAIN csv.rows |-> csv.rows[p].Value])
        /\ metrics.total_exports =
             SumOver(RowsOfType("Export"), [p \in DOMAIN csv.rows |-> csv.rows[p].Value])
        /\ PositionsIn(top.imports) \subseteq RowsOfType("Import")
        /\ PositionsIn(top.exports) \subseteq RowsOfType("Export")

C10_Witness ==
    /\ pc = "done" /\ csv.state = "found"
    /\ RowsOfType("Other") # {}
    /\ RowsOfType("import") # {}
    /\ RowsOfType("Import") # {}
    /\ errors = <<>>

\* what the top-3 selection sel must be for the rows of a given Type
TopSelectionOk(sel, type) ==
    LET part == RowsOfType(type)
        taken == PositionsIn(sel)
        size == IF Cardinality(part) < TopN THEN Cardinality(part) ELSE TopN
    IN /\ Len(sel) = size
       /\ Cardinality(taken) = Len(sel)
       /\ taken \subseteq part
       /\ \A k \in DOMAIN sel :
            /\ sel[k].Value = csv.rows[sel[k].index + 1].Value
            /\ sel[k].Category = csv.rows[sel[k].index + 1].Category
       /\ \A k \in 1..(Len(sel) - 1) :
            /\ sel[k].Value >= sel[k + 1].Value
            /\ sel[k].Value = sel[k + 1].Value => sel[k].index < sel[k + 1].index
       /\ \A p \in part \ taken : \A k \in DOMAIN sel :
            /\ csv.rows[p].Value <= sel[k].Value
            /\ csv.rows[p].Value = sel[k].Value => sel[k].index < p - 1
       /\ (sel = <<>>) <=> (part = {})

\* C4: on each side the top-3 selection holds min(3, partition size) rows of
\* that partition, in descending order of value; no row left out has a greater
\* value than a row taken; among rows of equal value the earlier row of the
\* file comes first and is taken first; the selection is empty exactly when
\* the partition is empty.
C4_TopThree ==
    top.shown =>
        /\ TopSelectionOk(top.imports, "Import")
        /\ TopSelectionOk(top.exports, "Export")

\* five rows, four of them imports, with a tie in value across the cut
C4_Witness ==
    /\ top.shown
    /\ Cardinality(RowsOfType("Import")) >= 4
    /\ RowsOfType("Export") # {}
    /\ Len(top.imports) = TopN
    /\ top.imports[1].Value > top.imports[TopN].Value
    /\ top.imports[1].index > top.imports[TopN].index
    /\ \E p \in RowsOfType("Import") \ PositionsIn(top.imports) :
          csv.rows[p].Value = top.imports[TopN].Value

(***************************************************************************)
(* Properties of the indicator report                                      *)
(***************************************************************************)
\* C5: if the query of either indicator (Inflation first, Unemployment
\* second) raises, the report stops with one error naming that indicator:
\* no figure, no trend line and no data table are shown, also when only the
\* second query failed, and nothing is queried after the failure.
C5_FetchFailureAborts ==
    /\ \A k \in DOMAIN queried : k <= Len(indicators) /\ queried[k] = indicators[k].name
    /\ raised # <<>> =>
         /\ Len(raised) = 1
         /\ pc = "done"
         /\ queried[Len(queried)] = raised[1]
         /\ errors = <<FetchErrorMsg(raised[1])>>
         /\ chart = NoFig
         /\ table = NoTable
         /\ final_df = <<>> /\ clean_df = <<>>

C5_Witness ==
    /\ raised = <<"Unemployment">>
    /\ queried = <<"Inflation", "Unemployment">>
    /\ Len(df_list) = 1
    /\ errors = <<FetchErrorMsg("Unemployment")>>
    /\ chart = NoFig

\* no frame that was fetched holds a row
CombinedResultEmpty == \A i \in DOMAIN df_list : DOMAIN df_list[i].data = {}

\* C6: when the combined result of the queries is empty and no query raised,
\* the report stops with the empty-result error, which is not the
\* per-indicator error, and shows no figure.
C6_EmptyResultAborts ==
    (page = PhillipsPage /\ pc = "done" /\ raised = <<>> /\ CombinedResultEmpty) =>
        /\ errors = <<EmptyErrorMsg>>
        /\ chart = NoFig

\* number of rows of the joined table with both values present
CleanCount == Cardinality({k \in DOMAIN final_df : IsClean(final_df[k])})

\* C8: after a successful fetch the figure carries a trend line exactly when
\* at least 2 rows have both values; with 0 or 1 such rows the scatter figure
\* is still shown, with the data points only.
C8_TrendNeedsTwoRows ==
    (page = PhillipsPage /\ pc = "done" /\ raised = <<>>) =>
        /\ chart.kind = "scatter"
        /\ Len(chart.points) = Len(final_df)
        /\ CleanCount >= 2 => Len(chart.traces) = 1 /\ chart.traces[1].name = "Trend Line"
        /\ CleanCount < 2 => chart.traces = <<>>

C8_Witness ==
    /\ page = PhillipsPage /\ pc = "done" /\ raised = <<>>
    /\ CleanCount = 1
    /\ Len(final_df) >= 2
    /\ chart.kind = "scatter"
    /\ chart.traces = <<>>

\* years some fetched series returned
ReturnedYears == {y \in Years : \E i \in DOMAIN df_list : YearLabel(y) \in DOMAIN df_list[i].data}

\* the cell the named series returned for year y, absent if it returned none
Returned(name, y) ==
    LET hits == {i \in DOMAIN df_list :
                    df_list[i].column = name /\ YearLabel(y) \in DOMAIN df_list[i].data}
    IN IF hits = {} THEN NaN ELSE df_list[CHOOSE i \in hits : TRUE].data[YearLabel(y)]

RowsOfYear(frame, y) == {k \in DOMAIN frame : frame[k].Year = y}

\* C9 as stated: the joined table has exactly one row for every year of the
\* queried range (looked at here only where the table has a row at all).
C9_OneRowPerYearOfRange ==
    (page = PhillipsPage /\ pc = "done" /\ raised = <<>> /\ final_df # <<>>) =>
        \A y \in Years : Cardinality(RowsOfYear(final_df, y)) = 1

\* C9 amended: the joined table has exactly one row for every year returned
\* by at least one of the two series and no row for any other year; a row
\* carries each series' value for its year, absent where that series returned
\* none; the rows kept for the fit are exactly the rows with both values
\* present, and the rows with an absent value stay in the table shown.
C9_OneRowPerReturnedYear ==
    (page = PhillipsPage /\ pc = "done" /\ raised = <<>>) =>
        /\ \A k \in DOMAIN final_df : final_df[k].Year \in ReturnedYears
        /\ \A y \in ReturnedYears :
             /\ Cardinality(RowsOfYear(final_df, y)) = 1
             /\ \A k \in RowsOfYear(final_df, y) :
                  /\ final_df[k].Inflation = Returned("Inflation", y)
                  /\ final_df[k].Unemployment = Returned("Unemployment", y)
        /\ \A k \in DOMAIN clean_df : clean_df[k].Unemployment # NaN /\ clean_df[k].Inflation # NaN
        /\ {clean_df[k] : k \in DOMAIN clean_df} = {final_df[k] : k \in {j \in DOMAIN final_df : IsClean(final_df[j])}}
        /\ Len(clean_df) = CleanCount
        /\ table.shown
        /\ Len(table.rows) = Len(final_df)
        /\ {table.rows[k] : k \in DOMAIN table.rows} = {final_df[k] : k \in DOMAIN final_df}
        /\ Len(chart.points) = Len(final_df)

\* a year in neither series, a year in one series only, and a clean row
C9_Witness ==
    /\ page = PhillipsPage /\ pc = "done" /\ raised = <<>>
    /\ ReturnedYears # Years
    /\ \E y \in ReturnedYears :
          YearLabel(y) \in DOMAIN df_list[1].data /\ YearLabel(y) \notin DOMAIN df_list[2].data
    /\ \E k \in DOMAIN table.rows : table.rows[k].Unemployment = NaN
    /\ Len(clean_df) >= 1

====
